---- MODULE Spec2Model ----
(***************************************************************************)
(* Model of app.py (Trip Whisperer): the guide-text parser                 *)
(* parse_guide_to_dict, computed character by character the way Python's   *)
(* re.split / re.findall / str.split / str.strip compute it, and the       *)
(* per-submission flow of the script around it.                            *)
(*                                                                         *)
(* A text is a sequence of one-character strings.                          *)
(***************************************************************************)
EXTENDS Integers, Sequences, FiniteSets, TLC

VARIABLES
    guide_text,          \* the text given to the parser (line 397)
    sections,            \* the parser's list of titles and bodies (line 272)
    parsed_guide,        \* the parser's result (line 402)
    pc,                  \* where the script is
    selected_lang_code,  \* the language of the page (line 364)
    has_key,             \* WEATHER_API_KEY is set (line 29)
    weather_info,        \* what get_weather_info returned (line 383)
    summary,             \* what get_city_summary returned (line 393)
    wiki_lang,           \* the wikipedia module's language setting
    wiki_lang_in_call,   \* what lines 158, 207 last set it to for a lookup
    image_url,           \* what get_image_url last returned (line 417)
    llm_failed,          \* the call of the language model raised (line 265)
    parser_called,       \* parse_guide_to_dict was called (line 402)
    guide_outcome,       \* which of lines 400, 405, 407 the guide ended at
    to_render            \* items of the guide still to be rendered (line 411)

parser_vars == <<guide_text, sections, parsed_guide>>
flow_vars == <<selected_lang_code, has_key, weather_info, summary, wiki_lang,
               wiki_lang_in_call, image_url,
               llm_failed, parser_called, guide_outcome, to_render>>
vars == <<parser_vars, pc, flow_vars>>

(***************************************************************************)
(* Bounds of the explored inputs.                                          *)
(***************************************************************************)
MaxLines == 4
MaxItemLen == 5
MaxChars == 3

(***************************************************************************)
(* Characters.  Python's \s and str.strip() treat both the blank and the   *)
(* newline as whitespace; '.' of a regular expression matches every        *)
(* character but the newline.                                              *)
(***************************************************************************)
NL == "\n"
Whitespace == {" ", NL}
Digits == {"1", "2"}

SetMin(S) == CHOOSE x \in S : \A y \in S : x <= y
SetMax(S) == CHOOSE x \in S : \A y \in S : x >= y

\* str.strip(): drop leading and trailing whitespace
strip(s) ==
    LET keep == {i \in 1..Len(s) : s[i] \notin Whitespace}
    IN  IF keep = {} THEN <<>> ELSE SubSeq(s, SetMin(keep), SetMax(keep))

\* index of the last character of the line that holds position i
\* (a greedy ".+" started at i stops there)
LineEnd(s, i) ==
    LET nl == {k \in i..Len(s) : s[k] = NL}
    IN  IF nl = {} THEN Len(s) ELSE SetMin(nl) - 1

\* The regex tail "\s*(.+)" tried at position p: the positions the group
\* can start at, i.e. after a run of whitespace and on a non-newline
\* character.  "\s*" is greedy, so the group starts at the largest one;
\* the empty set means the tail does not match.
GroupStarts(s, p) ==
    {g \in p..Len(s) : s[g] # NL /\ \A j \in p..(g - 1) : s[j] \in Whitespace}

GroupStart(s, p) == SetMax(GroupStarts(s, p))

\* r'###\s*(.+)' matches at position i
HeadingAt(s, i) ==
    /\ i + 2 <= Len(s)
    /\ s[i] = "#" /\ s[i + 1] = "#" /\ s[i + 2] = "#"
    /\ GroupStarts(s, i + 3) # {}

\* re.split(r'###\s*(.+)', s) from position p on: the text before each
\* match, then the match's group, ..., then the text after the last match
RECURSIVE SplitFrom(_, _)
SplitFrom(s, p) ==
    LET hits == {i \in p..Len(s) : HeadingAt(s, i)}
    IN  IF hits = {} THEN << SubSeq(s, p, Len(s)) >>
        ELSE LET i == SetMin(hits)
                 g == GroupStart(s, i + 3)
                 e == LineEnd(s, g)
             IN  << SubSeq(s, p, i - 1), SubSeq(s, g, e) >> \o SplitFrom(s, e + 1)

re_split(s) == SplitFrom(s, 1)

\* r"^\s*\d+\.\s*(.+)" under re.MULTILINE matches at position i; ItemDot is
\* the position of the period
AtLineStart(s, i) == i = 1 \/ s[i - 1] = NL

ItemDot(s, i) ==
    LET nonws == {k \in i..Len(s) : s[k] \notin Whitespace}
        d0 == IF nonws = {} THEN Len(s) + 1 ELSE SetMin(nonws)
        nondig == {k \in d0..Len(s) : s[k] \notin Digits}
    IN  IF nondig = {} THEN Len(s) + 1 ELSE SetMin(nondig)

ItemAt(s, i) ==
    LET nonws == {k \in i..Len(s) : s[k] \notin Whitespace}
        dot == ItemDot(s, i)
    IN  /\ AtLineStart(s, i)
        /\ nonws # {}
        /\ s[SetMin(nonws)] \in Digits
        /\ dot <= Len(s)
        /\ s[dot] = "."
        /\ GroupStarts(s, dot + 1) # {}

\* re.findall(r"^\s*\d+\.\s*(.+)", s, re.MULTILINE) from position p on
RECURSIVE FindFrom(_, _)
FindFrom(s, p) ==
    LET hits == {i \in p..Len(s) : ItemAt(s, i)}
    IN  IF hits = {} THEN << >>
        ELSE LET i == SetMin(hits)
                 g == GroupStart(s, ItemDot(s, i) + 1)
                 e == LineEnd(s, g)
             IN  << SubSeq(s, g, e) >> \o FindFrom(s, e + 1)

re_findall(s) == FindFrom(s, 1)

\* '|' in item_line
HasPipe(s) == \E i \in 1..Len(s) : s[i] = "|"

\* variant: split on the last '|' (rsplit)
SplitIndexLast(s) == SetMax({i \in 1..Len(s) : s[i] = "|"})

\* the '|' that item_line.split('|', 1) splits on: the first one
SplitIndex(s) == SetMin({i \in 1..Len(s) : s[i] = "|"})

\* item_line.split('|', 1): two parts around the separator, or the whole
\* string as the only part when there is no separator
split1(s) ==
    IF HasPipe(s)
    THEN LET k == SplitIndex(s)
         IN  << SubSeq(s, 1, k - 1), SubSeq(s, k + 1, Len(s)) >>
    ELSE << s >>

\* variant: name, description = parts[0], parts[1] without the two guards
item_reads_unguarded(item_line) == {0, 1}

\* the (0-based) indices of parts that lines 292-296 read for one item line
item_reads(item_line) ==
    IF HasPipe(item_line)
    THEN {0} \cup (IF Len(split1(item_line)) > 1 THEN {1} ELSE {})
    ELSE {}

\* IndexError: a read of parts past its end
item_raises(item_line) ==
    \E k \in item_reads(item_line) : k >= Len(split1(item_line))

\* variant: no placeholder for a missing description
PlaceholderEmpty == << >>

\* description = "..."
Placeholder == << ".", ".", "." >>

\* name, description of one item line (lines 290-299)
item_of(item_line) ==
    IF HasPipe(item_line)
    THEN LET parts == split1(item_line)
         IN  [name |-> strip(parts[1]),
              description |-> IF Len(parts) > 1 THEN strip(parts[2]) ELSE << >>]
    ELSE [name |-> strip(item_line), description |-> Placeholder]

\* variant: every item line is appended
RetainedAlways(item) == TRUE

\* if name: items.append(...)
Retained(item) == item.name # << >>

\* the items list of one section body (lines 282-302)
RECURSIVE collect_items(_)
collect_items(item_lines) ==
    IF item_lines = << >> THEN << >>
    ELSE LET item == item_of(Head(item_lines))
         IN  (IF Retained(item) THEN << item >> ELSE << >>)
                 \o collect_items(Tail(item_lines))

section_items(content) == collect_items(re_findall(content))

\* variant: a repeated title extends the entry it already has
DictSetMerge(d, title, items) ==
    IF \E k \in 1..Len(d) : d[k].title = title
    THEN [k \in 1..Len(d) |->
             IF d[k].title = title
             THEN [title |-> title, items |-> d[k].items \o items] ELSE d[k]]
    ELSE Append(d, [title |-> title, items |-> items])

\* guide_dict[title] = items on an insertion-ordered dictionary, kept as a
\* sequence of [title, items] entries: an existing key keeps its place and
\* takes the new value, a new key goes to the end
DictSet(d, title, items) ==
    IF \E k \in 1..Len(d) : d[k].title = title
    THEN [k \in 1..Len(d) |->
             IF d[k].title = title THEN [title |-> title, items |-> items] ELSE d[k]]
    ELSE Append(d, [title |-> title, items |-> items])

\* variant: the section is stored whether or not it has items
StoreSectionAlways(d, title, items) ==
    IF \E k \in 1..Len(d) : d[k].title = title
    THEN [k \in 1..Len(d) |->
             IF d[k].title = title THEN [title |-> title, items |-> items] ELSE d[k]]
    ELSE Append(d, [title |-> title, items |-> items])

\* if items: guide_dict[title] = items
StoreSection(d, title, items) ==
    IF items # << >> THEN DictSet(d, title, items) ELSE d

\* sections = re.split(...)[1:]
sections_of(text) == Tail(re_split(text))

\* the loop of lines 278-305 from index i (1-based: i is a title, i+1 its body)
RECURSIVE parse_loop(_, _, _)
parse_loop(secs, i, d) ==
    IF i > Len(secs) THEN d
    ELSE IF i + 1 <= Len(secs)
         THEN parse_loop(secs, i + 2,
                  StoreSection(d, strip(secs[i]),
                               section_items(strip(secs[i + 1]))))
         ELSE parse_loop(secs, i + 2, d)

parse_guide_to_dict(text) ==
    LET secs == sections_of(text)
    IN  IF secs = << >> THEN << >> ELSE parse_loop(secs, 1, << >>)

\* the (0-based) indices of sections that lines 278-281 read
section_reads(secs) ==
    UNION {{i, i + 1} : i \in {j \in 0..(Len(secs) - 1) :
                                  j % 2 = 0 /\ j + 1 < Len(secs)}}

\* parse_guide_to_dict(text) ends in an exception instead of returning
parse_raises(text) ==
    LET secs == sections_of(text)
    IN  \/ \E k \in section_reads(secs) : k >= Len(secs)
        \/ \E i \in 1..Len(secs) :
               /\ i % 2 = 0
               /\ LET item_lines == re_findall(strip(secs[i]))
                  IN  \E n \in 1..Len(item_lines) : item_raises(item_lines[n])

(***************************************************************************)
(* Input texts.                                                            *)
(***************************************************************************)
Hashes == << "#", "#", "#" >>

LinePalette ==
    { Hashes \o << " ", "a" >>,                  \* "### a"
      Hashes \o << "a" >>,                        \* "###a"
      << "a", " " >> \o Hashes \o << " ", "b" >>, \* "a ### b"
      << "1", ".", " ", "a", "|", "b" >>,         \* "1. a|b"
      << "2", ".", " ", "b" >>,                   \* "2. b"
      << "a", "b" >>,                             \* "ab"
      << "1", "." >> }                            \* "1."

RECURSIVE JoinLines(_)
JoinLines(ls) ==
    IF ls = << >> THEN << >>
    ELSE IF Len(ls) = 1 THEN ls[1]
    ELSE ls[1] \o << NL >> \o JoinLines(Tail(ls))

RECURSIVE SeqsUpTo(_, _)
SeqsUpTo(S, n) ==
    IF n = 0 THEN { << >> }
    ELSE LET shorter == SeqsUpTo(S, n - 1)
         IN  shorter \cup {Append(q, x) : q \in {r \in shorter : Len(r) = n - 1}, x \in S}

LineTexts == {JoinLines(ls) : ls \in SeqsUpTo(LinePalette, MaxLines)}

\* every text over the parser's significant characters, bare and as the
\* body of a section
CharAlphabet == {"#", " ", NL, "1", ".", "|", "a"}

CharTexts ==
    {p \o q : p \in {<< >>, Hashes \o << " ", "a", NL >>},
              q \in SeqsUpTo(CharAlphabet, MaxChars)}

\* every single item line "1.<content>" under one heading
ItemAlphabet == {" ", "|", "a", "b"}

ItemPrefix == Hashes \o << " ", "a", NL, "1", "." >>

ItemTexts == {ItemPrefix \o q : q \in SeqsUpTo(ItemAlphabet, MaxItemLen)}

Init ==
    /\ guide_text \in LineTexts \cup ItemTexts \cup CharTexts
    /\ sections = << >>
    /\ parsed_guide = << >>
    /\ pc = "input"
    /\ selected_lang_code = "en"
    /\ has_key = TRUE
    /\ weather_info = "none"
    /\ summary = "none"
    /\ wiki_lang = "en"
    /\ wiki_lang_in_call = "en"
    /\ image_url = "none"
    /\ llm_failed = FALSE
    /\ parser_called = FALSE
    /\ guide_outcome = "none"
    /\ to_render = 0

Parse ==
    /\ pc = "input"
    /\ sections' = sections_of(guide_text)
    /\ IF parse_raises(guide_text)
       THEN pc' = "raised" /\ parsed_guide' = << >>
       ELSE pc' = "parsed" /\ parsed_guide' = parse_guide_to_dict(guide_text)
    /\ parser_called' = TRUE
    /\ UNCHANGED <<guide_text, selected_lang_code, has_key, weather_info, summary,
                   wiki_lang, wiki_lang_in_call, image_url, llm_failed,
                   guide_outcome, to_render>>

Next == Parse

Spec == Init /\ [][Next]_vars

(***************************************************************************)
(* The script around the parser: one submission runs lines 376-445 from    *)
(* top to bottom.  Each external call returns, raises, or returns a        *)
(* payload of an unexpected shape; a function of the script either returns *)
(* a value or lets an exception out (raised).                              *)
(***************************************************************************)
Languages == {"en", "es", "hi", "fr", "te", "kn", "ur"}

\* "Could not generate guide" of line 399
Needle ==
    << "C", "o", "u", "l", "d", " ", "n", "o", "t", " ", "g", "e", "n", "e",
    "r", "a", "t", "e", " ", "g", "u", "i", "d", "e" >>

\* translations[lang_code]["guide_error"] up to its {e}.  Letters outside
\* ASCII are written as their base letter or as "x": none of them occurs in
\* the text looked for at line 399 or means anything to the parser.
guide_error(lang_code) ==
    CASE lang_code = "en" ->
           << "C", "o", "u", "l", "d", " ", "n", "o", "t", " ", "g", "e", "n", "e",
           "r", "a", "t", "e", " ", "g", "u", "i", "d", "e", ".", " ", "A", "I",
           " ", "m", "o", "d", "e", "l", " ", "e", "r", "r", "o", "r", ":", " " >>
      [] lang_code = "es" ->
           << "N", "o", " ", "s", "e", " ", "p", "u", "d", "o", " ", "g", "e", "n",
           "e", "r", "a", "r", " ", "l", "a", " ", "g", "u", "i", "a", ".", " ",
           "E", "r", "r", "o", "r", " ", "d", "e", "l", " ", "m", "o", "d", "e",
           "l", "o", " ", "d", "e", " ", "I", "A", ":", " " >>
      [] lang_code = "hi" ->
           << "x", "x", "x", "x", " ", "x", "x", "x", "x", "x", "x", "x", " ", "x",
           "x", "x", "x", " ", "x", "x", " ", "x", "x", "x", "x", " ", "A", "I",
           " ", "x", "x", "x", "x", " ", "x", "x", "x", "x", "x", "x", ":", " " >>
      [] lang_code = "fr" ->
           << "I", "m", "p", "o", "s", "s", "i", "b", "l", "e", " ", "d", "e", " ",
           "g", "e", "n", "e", "r", "e", "r", " ", "l", "e", " ", "g", "u", "i",
           "d", "e", ".", " ", "E", "r", "r", "e", "u", "r", " ", "d", "u", " ",
           "m", "o", "d", "e", "l", "e", " ", "I", "A", " ", ":", " " >>
      [] lang_code = "te" ->
           << "x", "x", "x", "x", " ", "x", "x", "x", "x", "x", "x", "x", "x", "x",
           "x", "x", "x", "x", "x", "x", ".", " ", "A", "I", " ", "x", "x", "x",
           "x", "x", " ", "x", "x", "x", "x", ":", " " >>
      [] lang_code = "kn" ->
           << "x", "x", "x", "x", "x", "x", "x", "x", "x", "x", " ", "x", "x", "x",
           "x", "x", "x", " ", "x", "x", "x", "x", "x", "x", "x", "x", "x", "x",
           "x", "x", "x", ".", " ", "A", "I", " ", "x", "x", "x", "x", "x", " ",
           "x", "x", "x", ":", " " >>
      [] lang_code = "ur" ->
           << "x", "x", "x", "x", "x", " ", "x", "x", "x", "x", " ", "x", "x", "x",
           "x", " ", "x", "x", " ", "x", "x", "x", "x", " ", "A", "I", " ", "x",
           "x", "x", "x", " ", "x", "x", " ", "x", "x", "x", "x", "x", ":", " " >>

\* needle in text
Contains(needle, text) ==
    \E i \in 0..(Len(text) - Len(needle)) :
        SubSeq(text, i + 1, i + Len(needle)) = needle

\* variant: except requests.exceptions.HTTPError alone
get_weather_info_http_only(key_set, outcome) ==
    IF ~key_set THEN [raised |-> FALSE, value |-> "key_not_configured"]
    ELSE CASE outcome = "ok" -> [raised |-> FALSE, value |-> "weather"]
           [] outcome = "HTTPError" -> [raised |-> FALSE, value |-> "could_not_find"]
           [] OTHER -> [raised |-> TRUE, value |-> "none"]

\* get_weather_info: the request succeeds with the expected JSON, ends in an
\* HTTP error status, fails in transport, or returns JSON without the keys
\* read at lines 187-190
WeatherOutcomes == {"ok", "HTTPError", "ConnectionError", "KeyError"}
get_weather_info(key_set, outcome) ==
    IF ~key_set THEN [raised |-> FALSE, value |-> "key_not_configured"]
    ELSE CASE outcome = "ok" -> [raised |-> FALSE, value |-> "weather"]
           [] outcome = "HTTPError" -> [raised |-> FALSE, value |-> "could_not_find"]
           [] OTHER -> [raised |-> FALSE, value |-> "could_not_retrieve"]

\* the wikipedia module's language after a run of wikipedia.set_lang calls,
\* given by their arguments in order, from the language it had before
RECURSIVE set_lang(_, _)
set_lang(lang, calls) ==
    IF calls = << >> THEN lang ELSE set_lang(Head(calls), Tail(calls))

\* variant: the except branch of get_city_summary without its set_lang("en")
summary_set_lang_calls_no_reset(lang_code, outcome) ==
    IF outcome = "ok" THEN << lang_code, "en" >> ELSE << lang_code >>

\* the set_lang calls of get_city_summary: line 207, then line 209 when
\* wikipedia.summary returned and line 212 when it raised
summary_set_lang_calls(lang_code, outcome) ==
    IF outcome = "ok" THEN << lang_code, "en" >> ELSE << lang_code, "en" >>

\* get_city_summary: wikipedia.summary returns or raises (page not found,
\* disambiguation, transport); lang is the module's language on return,
\* in_call the one the lookup ran under
SummaryOutcomes == {"ok", "exception"}
get_city_summary(lang_code, outcome) ==
    [raised |-> FALSE,
     value |-> IF outcome = "ok" THEN "summary" ELSE "summary_error",
     in_call |-> Head(summary_set_lang_calls(lang_code, outcome)),
     lang |-> set_lang("en", summary_set_lang_calls(lang_code, outcome))]

\* generate_travel_guide: the completion's text, or the translated
\* guide_error message when the call raises or the response has no choices
GuideOutcomes == {"ok", "exception", "no_choices"}
generate_travel_guide(lang_code, outcome, content, e) ==
    IF outcome = "ok"
    THEN [raised |-> FALSE, value |-> content]
    ELSE [raised |-> FALSE, value |-> guide_error(lang_code) \o e]

\* the set_lang calls of get_image_url: line 158, then line 161 when
\* wikipedia.page returned, and line 168 when wikipedia.page raised
\* ("exception") or the read of page.images raised after line 161
\* ("images_exception")
image_set_lang_calls(lang_code, outcome) ==
    CASE outcome = "exception" -> << lang_code, "en" >>
      [] outcome = "images_exception" -> << lang_code, "en", "en" >>
      [] OTHER -> << lang_code, "en" >>

\* get_image_url: the page's first image, the placeholder when the page has
\* none or the lookup raises; lang is the module's language on return,
\* in_call the one the lookup ran under
ImageOutcomes == {"ok", "no_images", "exception", "images_exception"}
get_image_url(lang_code, outcome) ==
    [raised |-> FALSE,
     value |-> IF outcome = "ok" THEN "image" ELSE "placeholder",
     in_call |-> Head(image_set_lang_calls(lang_code, outcome)),
     lang |-> set_lang("en", image_set_lang_calls(lang_code, outcome))]

\* what the language model may answer: a guide in the requested layout,
\* prose without headings, nothing, and a guide one of whose names holds
\* the words looked for at line 399
GoodGuide ==
    Hashes \o << " ", "a", NL, "1", ".", " ", "a", "|", "b", NL, "2", ".", " ", "b" >>
QuotingGuide == Hashes \o << " ", "a", NL, "1", ".", " " >> \o Needle \o << "|", "b" >>
ModelContents == { GoodGuide, << "a", "b" >>, << >>, QuotingGuide }

\* str(e) of the exception of the model call
ErrorTexts == { << "t", "i", "m", "e", "o", "u", "t" >>, << "4", "0", "1" >> }

RECURSIVE CountItems(_)
CountItems(d) == IF d = << >> THEN 0 ELSE Len(Head(d).items) + CountItems(Tail(d))

InitMain ==
    /\ guide_text = << >>
    /\ sections = << >>
    /\ parsed_guide = << >>
    /\ pc = "idle"
    /\ selected_lang_code = "en"
    /\ has_key \in BOOLEAN
    /\ weather_info = "none"
    /\ summary = "none"
    /\ wiki_lang = "en"
    /\ wiki_lang_in_call = "en"
    /\ image_url = "none"
    /\ llm_failed = FALSE
    /\ parser_called = FALSE
    /\ guide_outcome = "none"
    /\ to_render = 0

\* line 376: the button is pressed with a city name, in some page language
Submit ==
    /\ pc \in {"idle", "done"}
    /\ \E lang_code \in Languages : selected_lang_code' = lang_code
    /\ guide_text' = << >>
    /\ sections' = << >>
    /\ parsed_guide' = << >>
    /\ weather_info' = "none"
    /\ summary' = "none"
    /\ llm_failed' = FALSE
    /\ parser_called' = FALSE
    /\ guide_outcome' = "none"
    /\ to_render' = 0
    /\ image_url' = "none"
    /\ pc' = "weather"
    /\ UNCHANGED <<has_key, wiki_lang, wiki_lang_in_call>>

\* lines 382-389
FetchWeather ==
    /\ pc = "weather"
    /\ \E outcome \in WeatherOutcomes :
          LET r == get_weather_info(has_key, outcome)
          IN  IF r.raised
              THEN pc' = "crashed" /\ UNCHANGED weather_info
              ELSE pc' = "summary" /\ weather_info' = r.value
    /\ UNCHANGED <<parser_vars, selected_lang_code, has_key, summary, wiki_lang,
                   wiki_lang_in_call, image_url,
                   llm_failed, parser_called, guide_outcome, to_render>>

\* lines 391-395
FetchSummary ==
    /\ pc = "summary"
    /\ \E outcome \in SummaryOutcomes :
          LET r == get_city_summary(selected_lang_code, outcome)
          IN  /\ wiki_lang' = set_lang(wiki_lang, << r.in_call, r.lang >>)
              /\ wiki_lang_in_call' = r.in_call
              /\ IF r.raised
                 THEN pc' = "crashed" /\ UNCHANGED summary
                 ELSE pc' = "guide" /\ summary' = r.value
    /\ UNCHANGED <<parser_vars, selected_lang_code, has_key, weather_info, image_url,
                   llm_failed, parser_called, guide_outcome, to_render>>

\* line 397
FetchGuide ==
    /\ pc = "guide"
    /\ \E outcome \in GuideOutcomes, content \in ModelContents, e \in ErrorTexts :
          LET r == generate_travel_guide(selected_lang_code, outcome, content, e)
          IN  /\ llm_failed' = (outcome # "ok")
              /\ IF r.raised
                 THEN pc' = "crashed" /\ UNCHANGED guide_text
                 ELSE pc' = "check" /\ guide_text' = r.value
    /\ UNCHANGED <<sections, parsed_guide, selected_lang_code, has_key, weather_info,
                   summary, wiki_lang, wiki_lang_in_call, image_url,
                   parser_called, guide_outcome, to_render>>

\* lines 399-407 on guide_text: the error test, the parse and the test of
\* its result; what is shown, where the script goes on, and the parser's
\* list and result when it was called and returned
check_guide(text) ==
    IF Contains(Needle, text)
    THEN [outcome |-> "model_error", goto |-> "footer", called |-> FALSE,
          secs |-> << >>, guide |-> << >>]
    ELSE IF parse_raises(text)
    THEN [outcome |-> "none", goto |-> "crashed", called |-> TRUE,
          secs |-> sections_of(text), guide |-> << >>]
    ELSE IF parse_guide_to_dict(text) = << >>
    THEN [outcome |-> "invalid_format", goto |-> "footer", called |-> TRUE,
          secs |-> sections_of(text), guide |-> << >>]
    ELSE [outcome |-> "guide", goto |-> "render", called |-> TRUE,
          secs |-> sections_of(text), guide |-> parse_guide_to_dict(text)]

CheckGuide ==
    /\ pc = "check"
    /\ guide_outcome' = check_guide(guide_text).outcome
    /\ pc' = check_guide(guide_text).goto
    /\ parser_called' = check_guide(guide_text).called
    /\ sections' = check_guide(guide_text).secs
    /\ parsed_guide' = check_guide(guide_text).guide
    /\ to_render' = CountItems(check_guide(guide_text).guide)
    /\ UNCHANGED <<guide_text, selected_lang_code, has_key, weather_info, summary,
                   wiki_lang, wiki_lang_in_call, image_url, llm_failed>>

\* lines 411-425: one item, with its image
RenderItem ==
    /\ pc = "render"
    /\ to_render > 0
    /\ \E outcome \in ImageOutcomes :
          LET r == get_image_url(selected_lang_code, outcome)
          IN  /\ wiki_lang' = set_lang(wiki_lang, << r.in_call, r.lang >>)
              /\ wiki_lang_in_call' = r.in_call
              /\ IF r.raised
                 THEN pc' = "crashed" /\ UNCHANGED <<to_render, image_url>>
                 ELSE /\ pc' = "render"
                      /\ to_render' = to_render - 1
                      /\ image_url' = r.value
    /\ UNCHANGED <<parser_vars, selected_lang_code, has_key, weather_info, summary,
                   llm_failed, parser_called, guide_outcome>>

\* lines 427-441: the success message and the download button
FinishGuide ==
    /\ pc = "render"
    /\ to_render = 0
    /\ pc' = "footer"
    /\ UNCHANGED <<parser_vars, flow_vars>>

\* lines 444-445
Footer ==
    /\ pc = "footer"
    /\ pc' = "done"
    /\ UNCHANGED <<parser_vars, flow_vars>>

\* the steps of a submission under way, but for the one of lines 399-407
CallStep == FetchWeather \/ FetchSummary \/ FetchGuide \/ RenderItem
                \/ FinishGuide \/ Footer

NextMain ==
    \/ Submit
    \/ FetchWeather
    \/ FetchSummary
    \/ FetchGuide
    \/ CheckGuide
    \/ RenderItem
    \/ FinishGuide
    \/ Footer

SpecMain == InitMain /\ [][NextMain]_vars

(***************************************************************************)
(* The sections and item lines of guide_text, for stating the properties:   *)
(* sections holds the parser's local list of titles and bodies.            *)
(***************************************************************************)
SecCount == Len(sections) \div 2
SecTitle(k) == strip(sections[2 * k - 1])
SecBody(k) == strip(sections[2 * k])
SecLines(k) == re_findall(SecBody(k))

\* the first '|' of a line, stated by what it is
FirstPipe(L) == CHOOSE p \in 1..Len(L) : L[p] = "|" /\ \A q \in 1..(p - 1) : L[q] # "|"
BeforePipe(L) == IF HasPipe(L) THEN SubSeq(L, 1, FirstPipe(L) - 1) ELSE L
AfterPipe(L) == SubSeq(L, FirstPipe(L) + 1, Len(L))
Blank(s) == \A i \in 1..Len(s) : s[i] \in Whitespace

\* the item lines of section k whose candidate name is not empty
NamedLines(k) == {n \in 1..Len(SecLines(k)) : ~Blank(BeforePipe(SecLines(k)[n]))}
\* section k is the last section of its title that has such a line
Winning(k) ==
    /\ NamedLines(k) # {}
    /\ \A j \in (k + 1)..SecCount : SecTitle(j) = SecTitle(k) => NamedLines(j) = {}
EntriesFor(t) == {j \in 1..Len(parsed_guide) : parsed_guide[j].title = t}
EntryItems(t) == parsed_guide[CHOOSE j \in EntriesFor(t) : TRUE].items
LastOfTitle(k) == \A j \in (k + 1)..SecCount : SecTitle(j) # SecTitle(k)

\* C1 (as amended): of the sections that share a heading, the result holds
\* exactly one entry for the heading, and its items are those of the last
\* section that yields a retained item, never a merge of several sections.
C1_LastNonEmptyWins ==
    pc = "parsed" =>
        \A k \in 1..SecCount :
            Winning(k) =>
                /\ Cardinality(EntriesFor(SecTitle(k))) = 1
                /\ EntryItems(SecTitle(k)) = section_items(SecBody(k))

\* C1 witness: two sections with one heading, both with items, the later
\* one's different from the earlier one's, and the entry holds the later's
C1_Witness ==
    /\ pc = "parsed"
    /\ \E i \in 1..SecCount : \E k \in 1..SecCount :
          /\ i < k
          /\ SecTitle(i) = SecTitle(k)
          /\ NamedLines(i) # {}
          /\ Winning(k)
          /\ section_items(SecBody(i)) # section_items(SecBody(k))
          /\ EntryItems(SecTitle(k)) = section_items(SecBody(k))

\* C1 as stated, read in its weakest sense: of two sections with one heading
\* the result holds at most one entry for the heading, an entry it holds has
\* the items of the later section only, also when the later section yields
\* no retained item, and it holds one when the later section yields some.
C1_LaterAlwaysWins ==
    pc = "parsed" =>
        \A i \in 1..SecCount : \A k \in 1..SecCount :
            (i < k /\ SecTitle(i) = SecTitle(k) /\ LastOfTitle(k)) =>
                /\ Cardinality(EntriesFor(SecTitle(k))) <= 1
                /\ NamedLines(k) # {} => EntriesFor(SecTitle(k)) # {}
                /\ EntriesFor(SecTitle(k)) # {} =>
                      EntryItems(SecTitle(k)) = section_items(SecBody(k))

\* a text, and a guide document: an ordered mapping (no title twice) from
\* titles to sequences of name/description records
IsText(s) == s = << >> \/ (DOMAIN s = 1..Len(s) /\ \A i \in 1..Len(s) : s[i] \in STRING)
IsGuideDocument(d) ==
    /\ \A j \in 1..Len(d) :
          /\ IsText(d[j].title)
          /\ \A n \in 1..Len(d[j].items) :
                /\ DOMAIN d[j].items[n] = {"name", "description"}
                /\ IsText(d[j].items[n].name)
                /\ IsText(d[j].items[n].description)
    /\ \A i \in 1..Len(d) : \A j \in 1..Len(d) : d[i].title = d[j].title => i = j

\* C4: for every input text the parser raises nothing and returns a mapping
C4_Total ==
    /\ pc # "raised"
    /\ pc = "parsed" => IsGuideDocument(parsed_guide)

\* C4 witness: a text with headings and numbering but no list item under a
\* heading has been parsed to the empty mapping
C4_Witness ==
    /\ pc = "parsed"
    /\ SecCount > 0
    /\ \E i \in 1..Len(guide_text) : guide_text[i] \in Digits
    /\ \A k \in 1..SecCount : SecLines(k) = << >>
    /\ parsed_guide = << >>

\* C5: every item of the result has a name that is not empty after trimming,
\* and a section's entry has as many items as the section has item lines
\* with a non-empty candidate name: the other lines produce no item.
C5_NamesNonEmpty ==
    pc = "parsed" =>
        /\ \A j \in 1..Len(parsed_guide) : \A n \in 1..Len(parsed_guide[j].items) :
              ~Blank(parsed_guide[j].items[n].name)
        /\ \A k \in 1..SecCount :
              Winning(k) =>
                 /\ EntriesFor(SecTitle(k)) # {}
                 /\ Len(EntryItems(SecTitle(k))) = Cardinality(NamedLines(k))

\* C5 witness: a numbered line "| description" with an empty name has been
\* parsed, and its section has no entry
C5_Witness ==
    /\ pc = "parsed"
    /\ \E k \in 1..SecCount :
          /\ \E n \in 1..Len(SecLines(k)) :
                /\ HasPipe(SecLines(k)[n])
                /\ Blank(BeforePipe(SecLines(k)[n]))
                /\ ~Blank(AfterPipe(SecLines(k)[n]))
          /\ EntriesFor(SecTitle(k)) = {}

\* three '#' in a row occur nowhere in the text
NoMarker(s) ==
    ~ \E i \in 1..(Len(s) - 2) : s[i] = "#" /\ s[i + 1] = "#" /\ s[i + 2] = "#"

\* C6: no entry of the result has an empty item list, every entry's heading
\* heads a section with a retained item, and a text without heading markers
\* gives the empty result.
C6_NoEmptySection ==
    pc = "parsed" =>
        /\ \A j \in 1..Len(parsed_guide) : parsed_guide[j].items # << >>
        /\ \A j \in 1..Len(parsed_guide) :
              \E k \in 1..SecCount :
                  SecTitle(k) = parsed_guide[j].title /\ NamedLines(k) # {}
        /\ NoMarker(guide_text) => parsed_guide = << >>

\* C6 witness: a heading without items is absent, next to one that is kept
C6_Witness ==
    /\ pc = "parsed"
    /\ parsed_guide # << >>
    /\ \E k \in 1..SecCount :
          /\ SecLines(k) = << >>
          /\ EntriesFor(SecTitle(k)) = {}

\* item it is what line L gives under the first-'|' rule
SplitsOnFirstPipe(it, L) ==
    /\ it.name = strip(BeforePipe(L))
    /\ HasPipe(L) => it.description = strip(AfterPipe(L))

\* the sections whose every item line is retained: their entry's items go
\* with their item lines one to one
AllNamed(k) == Winning(k) /\ Cardinality(NamedLines(k)) = Len(SecLines(k))

\* C7: an item line is split on its first '|' only: the name is the trimmed
\* text before it, the description the trimmed text after it, further '|'
\* included.
C7_FirstPipeOnly ==
    pc = "parsed" =>
        \A k \in 1..SecCount :
            AllNamed(k) =>
                /\ EntriesFor(SecTitle(k)) # {}
                /\ Len(EntryItems(SecTitle(k))) = Len(SecLines(k))
                /\ \A n \in 1..Len(SecLines(k)) :
                      SplitsOnFirstPipe(EntryItems(SecTitle(k))[n], SecLines(k)[n])

\* C7 witness: a line with two '|' whose description keeps the second one
C7_Witness ==
    /\ pc = "parsed"
    /\ \E k \in 1..SecCount :
          /\ AllNamed(k)
          /\ Len(EntryItems(SecTitle(k))) = Len(SecLines(k))
          /\ \E n \in 1..Len(SecLines(k)) :
                /\ Cardinality({p \in 1..Len(SecLines(k)[n]) : SecLines(k)[n][p] = "|"}) = 2
                /\ HasPipe(EntryItems(SecTitle(k))[n].description)
                /\ ~HasPipe(EntryItems(SecTitle(k))[n].name)

\* C8: a line without '|' gives its whole trimmed content as the name and the
\* description "...", a line whose first '|' is followed by nothing or by
\* whitespace gives the description "", and the two are different values.
C8_PlaceholderVsEmpty ==
    pc = "parsed" =>
        \A k \in 1..SecCount :
            AllNamed(k) =>
                /\ EntriesFor(SecTitle(k)) # {}
                /\ Len(EntryItems(SecTitle(k))) = Len(SecLines(k))
                /\ \A n \in 1..Len(SecLines(k)) :
                      LET L == SecLines(k)[n]
                          it == EntryItems(SecTitle(k))[n]
                      IN  /\ ~HasPipe(L) =>
                                /\ it.name = strip(L)
                                /\ it.description = << ".", ".", "." >>
                          /\ (HasPipe(L) /\ Blank(AfterPipe(L))) =>
                                it.description = << >>
                          /\ (~HasPipe(L) \/ Blank(AfterPipe(L))) =>
                                (it.description = << >>) # ~HasPipe(L)

\* C8 witness: a line "name|" with nothing after the '|' has been parsed to
\* an item with the description ""
C8_Witness ==
    /\ pc = "parsed"
    /\ \E k \in 1..SecCount :
          /\ AllNamed(k)
          /\ Len(EntryItems(SecTitle(k))) = Len(SecLines(k))
          /\ \E m \in 1..Len(SecLines(k)) :
                /\ HasPipe(SecLines(k)[m])
                /\ Blank(AfterPipe(SecLines(k)[m]))
                /\ EntryItems(SecTitle(k))[m].description = << >>

\* a heading marker as the specification defines it: at the start of a line,
\* three '#' followed by whitespace; its title is the trimmed rest of the line
MarkerLine(s, i) ==
    /\ AtLineStart(s, i)
    /\ i + 3 <= Len(s)
    /\ s[i] = "#" /\ s[i + 1] = "#" /\ s[i + 2] = "#"
    /\ s[i + 3] \in Whitespace
MarkerTitle(s, i) == strip(SubSeq(s, i + 3, LineEnd(s, i + 3)))

\* C9 as stated: every entry of the result comes from a heading marker at the
\* start of a line, three '#' followed by whitespace, and is titled by the
\* trimmed rest of that line.
C9_LineStartMarkers ==
    pc = "parsed" =>
        \A j \in 1..Len(parsed_guide) :
            \E i \in 1..Len(guide_text) :
                /\ MarkerLine(guide_text, i)
                /\ parsed_guide[j].title = MarkerTitle(guide_text, i)

\* a numbered line: from the line start i, blanks, digits, a period, then
\* content on that same line (whitespace after the period is not asked for
\* here, so that the line scope alone is at stake)
NumberedLine(s, i) ==
    LET e == LineEnd(s, i)
        nb == {k \in i..e : s[k] # " "}
        d0 == IF nb = {} THEN e + 1 ELSE SetMin(nb)
        nd == {k \in d0..e : s[k] \notin Digits}
        dot == IF nd = {} THEN e + 1 ELSE SetMin(nd)
    IN  /\ AtLineStart(s, i)
        /\ d0 <= e /\ s[d0] \in Digits
        /\ dot <= e /\ s[dot] = "."
        /\ ~Blank(SubSeq(s, dot + 1, e))
NumberedContent(s, i) ==
    LET e == LineEnd(s, i)
        dot == SetMin({k \in i..e : s[k] = "."})
    IN  SubSeq(s, dot + 1, e)

\* C10 as stated: every item of the result is built from the content of one
\* line of the text that matches the numbered-line pattern; a line that does
\* not match is not consumed as the content of another line's item.
C10_LineScoped ==
    pc = "parsed" =>
        \A j \in 1..Len(parsed_guide) : \A n \in 1..Len(parsed_guide[j].items) :
            \E i \in 1..Len(guide_text) :
                /\ NumberedLine(guide_text, i)
                /\ SplitsOnFirstPipe(parsed_guide[j].items[n],
                                     NumberedContent(guide_text, i))

\* C2 as stated: a failed call of the language model is never passed to the
\* parser and ends as the model-error message, and the invalid-format
\* message is shown only after a call that succeeded and a parse that
\* returned the empty result.
C2_FailureToldApart ==
    /\ llm_failed => ~parser_called
    /\ (llm_failed /\ guide_outcome # "none") => guide_outcome = "model_error"
    /\ guide_outcome = "invalid_format" => (~llm_failed /\ parsed_guide = << >>)

C11_LangReset == wiki_lang = "en"

\* C11 witness: a submission in another language than English is over, its
\* summary lookup and its last image lookup both ran under that language
\* and both failed, and the module's language is "en"
C11_Witness ==
    /\ pc = "done"
    /\ selected_lang_code # "en"
    /\ summary = "summary_error"
    /\ image_url = "placeholder"
    /\ wiki_lang_in_call = selected_lang_code
    /\ wiki_lang = "en"
====
